---- MODULE Spec2Model ----
(***************************************************************************)
(* A model of src/build.js, the static documentation-site generator.       *)
(*                                                                         *)
(* Text is a sequence of atoms.  An atom is a one-character string ("a",   *)
(* "$", "%"), a non-ASCII character written by its code point ("U+00E9"),  *)
(* or an indivisible chunk of literal text that the program emits or       *)
(* searches for as a whole ("{{TOC}}", "<ul class=\"nav-list\">\n").       *)
(* No chunk begins with a character that String.prototype.replace treats   *)
(* specially after "$".                                                    *)
(***************************************************************************)
EXTENDS Integers, Sequences, FiniteSets, TLC

VARIABLES
    \* slugify applied to a text and to its own output
    text, slug, reslug, slugPc,
    \* md.parse / extractHeadings on one document
    doc, tokens, headings, headPc,
    \* the page furniture generators
    pages, currentIndex, nav, breadcrumb, pageNav, furnPc,
    \* buildPage on one page: template composition
    template, source, pageIndex, html, pagePc,
    \* build(): the whole run and the file system it acts on
    pc, index, dirExists, disk, fsLog, console, sources, error

slugVars == <<text, slug, reslug, slugPc>>
headVars == <<doc, tokens, headings, headPc>>
furnVars == <<pages, currentIndex, nav, breadcrumb, pageNav, furnPc>>
pageVars == <<template, source, pageIndex, html, pagePc>>
buildVars == <<pc, index, dirExists, disk, fsLog, console, sources, error>>
vars == <<slugVars, headVars, furnVars, pageVars, buildVars>>

\* what each part's actions leave alone
notSlug == <<headVars, furnVars, pageVars, buildVars>>
notHead == <<slugVars, furnVars, pageVars, buildVars>>
notFurn == <<slugVars, headVars, pageVars, buildVars>>
notPage == <<slugVars, headVars, furnVars, buildVars>>
notBuild == <<slugVars, headVars, furnVars, pageVars>>

----------------------------------------------------------------------------
(* Bounds of the model *)

\* longest heading text given to slugify
MaxTextLen == 3
\* most headings in one parsed document
MaxHeadings == 4
\* most entries in a page manifest
MaxPages == 3
\* longest paragraph text of a page source
MaxParaLen == 2

----------------------------------------------------------------------------
(* Generic helpers on sequences *)

RECURSIVE Flatten(_)
Flatten(ss) == IF ss = <<>> THEN <<>> ELSE Head(ss) \o Flatten(Tail(ss))

\* all sequences over S of length at most n
SeqsUpTo(S, n) == UNION {[1..k -> S] : k \in 0..n}

\* first index of atom a in s, 0 when absent (String.prototype.indexOf + 1)
IndexOf(s, a) ==
    IF \E i \in 1..Len(s) : s[i] = a
    THEN CHOOSE i \in 1..Len(s) : s[i] = a /\ \A j \in 1..(i - 1) : s[j] # a
    ELSE 0

Contains(s, a) == \E i \in 1..Len(s) : s[i] = a

\* s has t as a contiguous run of atoms
HasInfix(s, t) ==
    \E i \in 0..(Len(s) - Len(t)) : \A j \in 1..Len(t) : s[i + j] = t[j]

----------------------------------------------------------------------------
(* slugify, build.js:29-31 *)

\* JavaScript white space, as matched by trim() and by \s
WhiteSpace == {" ", "\t"}

\* String.prototype.trim
RECURSIVE TrimStart(_)
TrimStart(s) ==
    IF s # <<>> /\ Head(s) \in WhiteSpace THEN TrimStart(Tail(s)) ELSE s

RECURSIVE TrimEnd(_)
TrimEnd(s) ==
    IF s # <<>> /\ s[Len(s)] \in WhiteSpace
    THEN TrimEnd(SubSeq(s, 1, Len(s) - 1))
    ELSE s

Trim(s) == TrimEnd(TrimStart(s))

\* String.prototype.toLowerCase on the letters of the model
LowerChar(c) ==
    CASE c = "A" -> "a"
      [] c = "B" -> "b"
      [] c = "C" -> "c"
      [] c = "U+00C9" -> "U+00E9"
      [] c = "{{CONTENT}}" -> "{{content}}"
      [] OTHER -> c

ToLowerCase(s) == [i \in 1..Len(s) |-> LowerChar(s[i])]

\* .replace(/\./g, '')
RemoveDots(s) == SelectSeq(s, LAMBDA c : c # ".")

\* .replace(/\s+/g, '-'): every maximal run of white space becomes one hyphen
RECURSIVE ReplaceWhiteSpaceRuns(_)
ReplaceWhiteSpaceRuns(s) ==
    IF s = <<>> THEN <<>>
    ELSE IF Head(s) \in WhiteSpace
         THEN <<"-">> \o ReplaceWhiteSpaceRuns(TrimStart(s))
         ELSE <<Head(s)>> \o ReplaceWhiteSpaceRuns(Tail(s))

\* the characters encodeURIComponent leaves alone: A-Z a-z 0-9 - _ . ! ~ * ' ( )
Unreserved ==
    {"a", "b", "c", "x", "A", "B", "C", "0", "2", "3", "4", "5", "6", "9",
     "-", "_", ".", "!", "~", "*", "'", "(", ")"}

\* the UTF-8 percent-escape of one character that is not unreserved
PercentEscape(c) ==
    CASE c = "%" -> <<"%", "2", "5">>
      [] c = "&" -> <<"%", "2", "6">>
      [] c = "$" -> <<"%", "2", "4">>
      [] c = " " -> <<"%", "2", "0">>
      [] c = "\t" -> <<"%", "0", "9">>
      [] c = "U+00E9" -> <<"%", "C", "3", "%", "A", "9">>
      [] c = "U+00C9" -> <<"%", "C", "3", "%", "8", "9">>
      [] c = "{{content}}" -> <<"%", "7B%7Bcontent%7D%7D">>

EncodeChar_KeepsPercent(c) ==
    IF c \in Unreserved \cup {"%"} THEN <<c>> ELSE PercentEscape(c)

EncodeChar(c) == IF c \in Unreserved THEN <<c>> ELSE PercentEscape(c)

EncodeURIComponent(s) == Flatten([i \in 1..Len(s) |-> EncodeChar(s[i])])

slugify(s) ==
    EncodeURIComponent(ReplaceWhiteSpaceRuns(RemoveDots(ToLowerCase(Trim(s)))))

\* heading texts given to slugify
TextChars == {"a", "B", ".", " ", "-", "&", "U+00E9"}
Texts == SeqsUpTo(TextChars, MaxTextLen)

SlugIdle ==
    /\ text = <<>>
    /\ slug = <<>>
    /\ reslug = <<>>
    /\ slugPc = "idle"

SlugInit ==
    /\ text \in Texts
    /\ slug = <<>>
    /\ reslug = <<>>
    /\ slugPc = "start"

\* slugify(text)
Slugify ==
    /\ slugPc = "start"
    /\ slug' = slugify(text)
    /\ slugPc' = "once"
    /\ UNCHANGED <<text, reslug, notSlug>>

\* slugify(slugify(text))
Reslugify ==
    /\ slugPc = "once"
    /\ reslug' = slugify(slug)
    /\ slugPc' = "twice"
    /\ UNCHANGED <<text, slug, notSlug>>

----------------------------------------------------------------------------
(* md.parse: the token stream of a document, build.js:34-55 and 135.       *)
(* A document is a sequence of blocks, a heading (level, text) or a        *)
(* paragraph (text), with plain text that has no inline markup.            *)

Heading(level, txt) == [kind |-> "heading", level |-> level, text |-> txt]
Paragraph(txt) == [kind |-> "paragraph", level |-> 0, text |-> txt]

Token(type, tag, content) ==
    [type |-> type, tag |-> tag, content |-> content, id |-> <<>>]

DigitChar(n) ==
    CASE n = 0 -> "0" [] n = 1 -> "1" [] n = 2 -> "2" [] n = 3 -> "3"
      [] n = 4 -> "4" [] n = 5 -> "5" [] n = 6 -> "6" [] n = 7 -> "7"
      [] n = 8 -> "8" [] n = 9 -> "9"

\* the three tokens markdown-it emits for one block
BlockTokens(b) ==
    IF b.kind = "heading"
    THEN <<Token("heading_open", <<"h", DigitChar(b.level)>>, <<>>),
           Token("inline", <<>>, b.text),
           Token("heading_close", <<"h", DigitChar(b.level)>>, <<>>)>>
    ELSE <<Token("paragraph_open", <<"p">>, <<>>),
           Token("inline", <<>>, b.text),
           Token("paragraph_close", <<"p">>, <<>>)>>

\* markdown-it-anchor, uniqueSlug with its default start index 1:
\* slug, slug-1, slug-2, ... until one is not taken yet
RECURSIVE uniqueSlug(_, _, _)
uniqueSlug(s, slugs, i) ==
    IF s \notin slugs THEN s
    ELSE IF (s \o <<"-", DigitChar(i)>>) \notin slugs
         THEN s \o <<"-", DigitChar(i)>>
         ELSE uniqueSlug(s, slugs, i + 1)

\* markdown-it-anchor's core rule as configured at build.js:48-55: every
\* heading_open token (all levels) gets the id attribute
\* uniqueSlug(slugify(title)), where title is the text of the next token
RECURSIVE markdownItAnchor(_, _, _)
markdownItAnchor(toks, i, slugs) ==
    IF i > Len(toks) THEN toks
    ELSE IF toks[i].type = "heading_open"
         THEN LET s == uniqueSlug(slugify(toks[i + 1].content), slugs, 1)
              IN  markdownItAnchor([toks EXCEPT ![i].id = s], i + 1,
                                   slugs \cup {s})
         ELSE markdownItAnchor(toks, i + 1, slugs)

\* md.parse(markdown, {})
Parse(d) ==
    markdownItAnchor(Flatten([i \in 1..Len(d) |-> BlockTokens(d[i])]), 1, {})

----------------------------------------------------------------------------
(* extractHeadings, build.js:98-112 *)

\* parseInt of a string of one decimal digit
ParseInt(s) == CHOOSE n \in 0..9 : DigitChar(n) = s[1]

\* token.tag.substring(1)
Substring1(s) == Tail(s)

KeepLevel_UpTo4(level) == level >= 2 /\ level <= 4

\* level >= 2 && level <= 3
KeepLevel(level) == level >= 2 /\ level <= 3

RECURSIVE ExtractFrom(_, _)
ExtractFrom(toks, i) ==
    IF i > Len(toks) THEN <<>>
    ELSE IF toks[i].type = "heading_open"
         THEN LET level == ParseInt(Substring1(toks[i].tag))
                  content == toks[i + 1].content
                  id == slugify(content)
              IN  (IF KeepLevel(level)
                   THEN <<[level |-> level, content |-> content, id |-> id]>>
                   ELSE <<>>) \o ExtractFrom(toks, i + 1)
         ELSE ExtractFrom(toks, i + 1)

extractHeadings(toks) == ExtractFrom(toks, 1)

\* the documents of the heading check
HeadingTexts == {<<"a">>, <<"A">>}
HeadingBlocks ==
    {Heading(l, t) : l \in 1..4, t \in HeadingTexts} \cup {Paragraph(<<"x">>)}
HeadingDocs == SeqsUpTo(HeadingBlocks, MaxHeadings)

HeadIdle ==
    /\ doc = <<>>
    /\ tokens = <<>>
    /\ headings = <<>>
    /\ headPc = "idle"

HeadInit ==
    /\ doc \in HeadingDocs
    /\ tokens = <<>>
    /\ headings = <<>>
    /\ headPc = "start"

\* const tokens = md.parse(markdown, {})
ParseDoc ==
    /\ headPc = "start"
    /\ tokens' = Parse(doc)
    /\ headPc' = "parsed"
    /\ UNCHANGED <<doc, headings, notHead>>

\* const headings = extractHeadings(tokens)
ExtractHeadings ==
    /\ headPc = "parsed"
    /\ headings' = extractHeadings(tokens)
    /\ headPc' = "done"
    /\ UNCHANGED <<doc, tokens, notHead>>

----------------------------------------------------------------------------
(* The page manifest, build.js:19-26, and the page furniture generators,   *)
(* build.js:58-95.  Indices are zero-based as in the source: At(ps, i) is  *)
(* ps[i].                                                                  *)

Page(src, dest, title, navLabel) ==
    [src |-> src, dest |-> dest, title |-> title, nav |-> navLabel]

\* const pages = [...]
ShippedPages ==
    <<Page("README.md", "index.html", "Getting Started", "Getting Started"),
      Page("docs/guide.md", "guide.html", "Guide", "Guide"),
      Page("docs/api-reference.md", "api-reference.html", "API Reference",
           "API Reference"),
      Page("docs/adapters.md", "adapters.html", "Adapters", "Adapters"),
      Page("docs/development.md", "development.html", "Development",
           "Development"),
      Page("ARCHITECTURE.md", "architecture.html", "Architecture",
           "Architecture")>>

At(ps, i) == ps[i + 1]

\* generateNav(currentPage)
generateNav(ps, currentPage) ==
    <<"<ul class=\"nav-list\">\n">>
    \o Flatten([i \in 1..Len(ps) |->
           <<"  <li">>
           \o (IF ps[i].dest = currentPage THEN <<" class=\"active\"">> ELSE <<>>)
           \o <<"><a href=\"", ps[i].dest, "\">", ps[i].nav, "</a></li>\n">>])
    \o <<"</ul>">>

generateBreadcrumb_AlwaysHome(pageTitle) ==
    IF pageTitle = "Home"
    THEN <<"<div class=\"breadcrumb\"><span>Home</span></div>">>
    ELSE <<"<div class=\"breadcrumb\"><a href=\"index.html\">Home</a> / <span>",
           pageTitle, "</span></div>">>

\* generateBreadcrumb(pageTitle)
generateBreadcrumb(pageTitle) ==
    IF pageTitle = "Getting Started"
    THEN <<"<div class=\"breadcrumb\"><span>Home</span></div>">>
    ELSE <<"<div class=\"breadcrumb\"><a href=\"index.html\">Home</a> / <span>",
           pageTitle, "</span></div>">>

\* the pager slot of a link that is absent
EmptySlot == <<"  <span></span>\n">>

PrevSlot(p) == <<"  <a href=\"", p.dest, "\" class=\"prev\">U+2190 ", p.nav, "</a>\n">>

NextSlot(p) == <<"  <a href=\"", p.dest, "\" class=\"next\">", p.nav, " U+2192</a>\n">>

generatePageNav_PrevIsCurrent(ps, i) ==
    <<"<footer class=\"page-nav\">\n">>
    \o (IF i > 0 THEN PrevSlot(At(ps, i)) ELSE EmptySlot)
    \o (IF i < Len(ps) - 1 THEN NextSlot(At(ps, i + 1)) ELSE EmptySlot)
    \o <<"</footer>">>

\* generatePageNav(currentIndex)
generatePageNav(ps, i) ==
    <<"<footer class=\"page-nav\">\n">>
    \o (IF i > 0 THEN PrevSlot(At(ps, i - 1)) ELSE EmptySlot)
    \o (IF i < Len(ps) - 1 THEN NextSlot(At(ps, i + 1)) ELSE EmptySlot)
    \o <<"</footer>">>

\* manifests of the furniture check: the shipped entries, selected and ordered
\* freely, so that destinations stay unique
Manifests ==
    {m \in SeqsUpTo(1..Len(ShippedPages), MaxPages) :
        /\ Len(m) >= 1
        /\ \A i, j \in 1..Len(m) : i # j => m[i] # m[j]}

ManifestOf(m) == [i \in 1..Len(m) |-> ShippedPages[m[i]]]

FurnIdle ==
    /\ pages = <<>>
    /\ currentIndex = 0
    /\ nav = <<>>
    /\ breadcrumb = <<>>
    /\ pageNav = <<>>
    /\ furnPc = "idle"

FurnInit ==
    /\ \E m \in Manifests : pages = ManifestOf(m)
    /\ currentIndex \in 0..(Len(pages) - 1)
    /\ nav = <<>>
    /\ breadcrumb = <<>>
    /\ pageNav = <<>>
    /\ furnPc = "start"

\* generateNav(page.dest), build.js:147
GenerateNav ==
    /\ furnPc = "start"
    /\ nav' = generateNav(pages, At(pages, currentIndex).dest)
    /\ furnPc' = "nav"
    /\ UNCHANGED <<pages, currentIndex, breadcrumb, pageNav, notFurn>>

\* generateBreadcrumb(page.title), build.js:148
GenerateBreadcrumb ==
    /\ furnPc = "nav"
    /\ breadcrumb' = generateBreadcrumb(At(pages, currentIndex).title)
    /\ furnPc' = "breadcrumb"
    /\ UNCHANGED <<pages, currentIndex, nav, pageNav, notFurn>>

\* generatePageNav(index), build.js:151
GeneratePageNav ==
    /\ furnPc = "breadcrumb"
    /\ pageNav' = generatePageNav(pages, currentIndex)
    /\ furnPc' = "done"
    /\ UNCHANGED <<pages, currentIndex, nav, breadcrumb, notFurn>>

----------------------------------------------------------------------------
(* md.renderer.render and generateTOC, build.js:136 and 115-125 *)

\* markdown-it's escapeHtml on one character of text: & becomes &amp;
EscapeHtmlChar(c) == IF c = "&" THEN <<"&", "amp;">> ELSE <<c>>

EscapeHtml(s) == Flatten([i \in 1..Len(s) |-> EscapeHtmlChar(s[i])])

\* the HTML of one token; a heading carries its id and the permalink that
\* markdown-it-anchor puts before its text
RenderToken(toks, i) ==
    LET t == toks[i]
    IN  CASE t.type = "heading_open" ->
                <<"<">> \o t.tag \o <<" id=\"">> \o t.id
                \o <<"\" tabindex=\"-1\"><a class=\"anchor\" href=\"#">> \o t.id
                \o <<"\" aria-hidden=\"true\">#</a> ">>
          [] t.type = "heading_close" -> <<"</">> \o t.tag \o <<">\n">>
          [] t.type = "paragraph_open" -> <<"<p>">>
          [] t.type = "paragraph_close" -> <<"</p>\n">>
          [] t.type = "inline" -> EscapeHtml(t.content)

\* md.renderer.render(tokens, md.options, {})
Render(toks) == Flatten([i \in 1..Len(toks) |-> RenderToken(toks, i)])

\* generateTOC(headings)
generateTOC(hs) ==
    IF Len(hs) = 0 THEN <<>>
    ELSE <<"<nav class=\"toc\">\n<h2>On This Page</h2>\n<ul>\n">>
         \o Flatten([i \in 1..Len(hs) |->
                <<"  <li">>
                \o (IF hs[i].level = 3 THEN <<" class=\"toc-sub\"">> ELSE <<>>)
                \o <<"><a href=\"#">> \o hs[i].id \o <<"\">">> \o hs[i].content
                \o <<"</a></li>\n">>])
         \o <<"</ul>\n</nav>">>

----------------------------------------------------------------------------
(* String.prototype.replace(pattern, replacement) with two strings, as     *)
(* buildPage calls it, build.js:146-151                                    *)

\* GetSubstitution of ECMAScript for a string pattern (no captures): in the
\* replacement, $$ is a dollar sign, $& the matched text, $` the text before
\* the match and $' the text after it; any other $ stands for itself
RECURSIVE GetSubstitution(_, _, _, _)
GetSubstitution(matched, str, position, replacement) ==
    IF replacement = <<>> THEN <<>>
    ELSE IF Head(replacement) = "$" /\ Len(replacement) >= 2
         THEN LET c == replacement[2]
                  rest == SubSeq(replacement, 3, Len(replacement))
                  more == GetSubstitution(matched, str, position, rest)
              IN  CASE c = "$" -> <<"$">> \o more
                    [] c = "&" -> <<matched>> \o more
                    [] c = "`" -> SubSeq(str, 1, position - 1) \o more
                    [] c = "'" -> SubSeq(str, position + 1, Len(str)) \o more
                    [] OTHER -> <<"$">>
                                \o GetSubstitution(matched, str, position,
                                                   Tail(replacement))
         ELSE <<Head(replacement)>>
              \o GetSubstitution(matched, str, position, Tail(replacement))

\* only the first occurrence of the pattern is replaced; without one the
\* string is returned as it is
Replace(str, pattern, replacement) ==
    LET position == IndexOf(str, pattern)
    IN  IF position = 0 THEN str
        ELSE SubSeq(str, 1, position - 1)
             \o GetSubstitution(pattern, str, position, replacement)
             \o SubSeq(str, position + 1, Len(str))

----------------------------------------------------------------------------
(* buildPage, build.js:128-157: the page composed from the template *)

Placeholders ==
    {"{{TITLE}}", "{{NAV}}", "{{BREADCRUMB}}", "{{TOC}}", "{{CONTENT}}",
     "{{PAGE_NAV}}"}

\* the order of the six replacements, build.js:146-151
CodeOrder ==
    <<"{{TITLE}}", "{{NAV}}", "{{BREADCRUMB}}", "{{TOC}}", "{{CONTENT}}",
      "{{PAGE_NAV}}">>

\* the fragment that replaces each placeholder on page i of manifest ps
\* whose source is the document d
Fragments(ps, i, d) ==
    LET toks == Parse(d)
    IN  [ph \in Placeholders |->
            CASE ph = "{{TITLE}}" -> <<At(ps, i).title>>
              [] ph = "{{NAV}}" -> generateNav(ps, At(ps, i).dest)
              [] ph = "{{BREADCRUMB}}" -> generateBreadcrumb(At(ps, i).title)
              [] ph = "{{TOC}}" -> generateTOC(extractHeadings(toks))
              [] ph = "{{CONTENT}}" -> Render(toks)
              [] ph = "{{PAGE_NAV}}" -> generatePageNav(ps, i)]

\* html = html.replace(placeholder, fragment), once per placeholder of order
RECURSIVE ComposeInOrder(_, _, _)
ComposeInOrder(h, order, frags) ==
    IF order = <<>> THEN h
    ELSE ComposeInOrder(Replace(h, Head(order), frags[Head(order)]),
                        Tail(order), frags)

\* the text buildPage writes for page i
BuildPageHtml(tpl, ps, i, d) == ComposeInOrder(tpl, CodeOrder, Fragments(ps, i, d))

\* templates: the first three placeholders in the code's order, the last
\* three in any order, each placeholder on a line of its own
TemplateOf(layout) ==
    <<"<html>\n">> \o Flatten([i \in 1..Len(layout) |-> <<layout[i], "\n">>])
    \o <<"</html>\n">>

RemoveAtom(s, a) == SelectSeq(s, LAMBDA c : c # a)

Permutations6 ==
    {o \in [1..Len(CodeOrder) -> Placeholders] :
        \A i, j \in 1..Len(CodeOrder) : i # j => o[i] # o[j]}

CompleteLayouts ==
    {o \in Permutations6 : \A i \in 1..3 : o[i] = CodeOrder[i]}

CompleteTemplates == {TemplateOf(l) : l \in CompleteLayouts}

Templates ==
    CompleteTemplates
    \cup {RemoveAtom(t, ph) : t \in CompleteTemplates, ph \in Placeholders}

\* page sources: at most one level-2 heading, then at most one paragraph
ParaChars == {"x", "$", "&", "{{PAGE_NAV}}"}
PageHeadingTexts == {<<"x">>, <<"{{CONTENT}}">>}
PageDocs ==
    {h \o p :
        h \in {<<>>} \cup {<<Heading(2, t)>> : t \in PageHeadingTexts},
        p \in {<<>>} \cup {<<Paragraph(t)>> :
                              t \in SeqsUpTo(ParaChars, MaxParaLen) \ {<<>>}}}

PageIdle ==
    /\ template = <<>>
    /\ source = <<>>
    /\ pageIndex = 0
    /\ html = <<>>
    /\ pagePc = "idle"

PageInit ==
    /\ template \in Templates
    /\ source \in PageDocs
    /\ pageIndex \in 0..(Len(ShippedPages) - 1)
    /\ html = <<>>
    /\ pagePc = "start"

\* buildPage(page, index) up to the text it hands to fs.writeFileSync
BuildPageText ==
    /\ pagePc = "start"
    /\ html' = BuildPageHtml(template, ShippedPages, pageIndex, source)
    /\ pagePc' = "built"
    /\ UNCHANGED <<template, source, pageIndex, notPage>>

----------------------------------------------------------------------------
(* build, build.js:160-188: the run and the file system it acts on.        *)
(* disk maps each file of the output directory to what it holds; fsLog     *)
(* lists the files in the order their write or copy completed; console is  *)
(* what console.log printed; error is the exception that left build().     *)

Absent == [kind |-> "absent", data |-> <<>>]
\* left by an earlier run
Stale == [kind |-> "stale", data |-> <<>>]
\* opened and truncated by a write that then failed
Partial == [kind |-> "partial", data |-> <<>>]
Asset(name) == [kind |-> "asset", data |-> <<name>>]
PageFile(h) == [kind |-> "page", data |-> h]

NumPages == Len(ShippedPages)
Dest(i) == At(ShippedPages, i).dest
FileNames == {"styles.css", "logo.svg"} \cup {Dest(i) : i \in 0..(NumPages - 1)}

\* template.html: the six placeholders, once each
BuildTemplate == TemplateOf(CodeOrder)

\* what the source files of a run may hold
BuildDocs ==
    {<<Heading(2, <<"x">>), Paragraph(<<"x">>)>>, <<Paragraph(<<"x", "x">>)>>}

SuccessMessage == <<"\nU+2713 Build complete! Output in build/">>

BuildIdle ==
    /\ pc = "idle"
    /\ index = 0
    /\ dirExists = FALSE
    /\ disk = <<>>
    /\ fsLog = <<>>
    /\ console = <<>>
    /\ sources = <<>>
    /\ error = "none"

BuildInit ==
    /\ pc = "start"
    /\ index = 0
    /\ dirExists \in BOOLEAN
    /\ disk = [f \in FileNames |-> IF dirExists THEN Stale ELSE Absent]
    /\ fsLog = <<>>
    /\ console = <<>>
    /\ sources \in [0..(NumPages - 1) -> BuildDocs]
    /\ error = "none"

AfterThrow_Swallowed == "pages"

\* no try/catch anywhere: an exception leaves buildPage, forEach and build
AfterThrow == "aborted"

NextIndex_SkipsOne(i) == i + 2

\* pages.forEach passes on to the next entry
NextIndex(i) == i + 1

\* a throw at step e, after the lines said printed
Throw(e, said) ==
    /\ pc' = AfterThrow
    /\ error' = e
    /\ console' = console \o said
    /\ UNCHANGED <<index, dirExists, fsLog, sources>>

\* a write to file f that fails may have created or truncated f already
FailedWrite(f) == disk' = disk \/ disk' = [disk EXCEPT ![f] = Partial]

\* build.js:161-166: the banner, then the output directory
Start ==
    /\ pc = "start"
    /\ \/ /\ dirExists
          /\ pc' = "copyStyles"
          /\ console' = console \o <<<<"Building Tinqer documentation...\n">>>>
          /\ UNCHANGED <<index, dirExists, disk, fsLog, sources, error>>
       \/ /\ ~dirExists
          /\ dirExists' = TRUE
          /\ pc' = "copyStyles"
          /\ console' = console \o <<<<"Building Tinqer documentation...\n">>>>
          /\ UNCHANGED <<index, disk, fsLog, sources, error>>
       \/ /\ ~dirExists
          /\ Throw("mkdir", <<<<"Building Tinqer documentation...\n">>>>)
          /\ UNCHANGED disk
    /\ UNCHANGED notBuild

\* fs.copyFileSync of one asset between its two console lines
Copy(at, name, then) ==
    /\ pc = at
    /\ \/ /\ disk' = [disk EXCEPT ![name] = Asset(name)]
          /\ fsLog' = Append(fsLog, name)
          /\ console' = console \o <<<<"Copying ", name, "...">>,
                                     <<"  U+2713 Copied ", name>>>>
          /\ pc' = then
          /\ UNCHANGED <<index, dirExists, sources, error>>
       \/ /\ Throw("copy", <<<<"Copying ", name, "...">>>>)
          /\ FailedWrite(name)
    /\ UNCHANGED notBuild

\* build.js:168-171
CopyStyles == Copy("copyStyles", "styles.css", "copyLogo")

\* build.js:173-177
CopyLogo == Copy("copyLogo", "logo.svg", "pages")

\* buildPage(page, index) for the next entry of pages.forEach
BuildPage ==
    /\ pc = "pages"
    /\ index < NumPages
    /\ LET dest == Dest(index)
           said == <<<<"Building ", dest, "...">>>>
       IN  \/ /\ Throw("readSource", said)
              /\ UNCHANGED disk
           \/ /\ Throw("readTemplate", said)
              /\ UNCHANGED disk
           \/ /\ Throw("write", said)
              /\ FailedWrite(dest)
           \/ /\ disk' = [disk EXCEPT ![dest] =
                            PageFile(BuildPageHtml(BuildTemplate, ShippedPages,
                                                   index, sources[index]))]
              /\ fsLog' = Append(fsLog, dest)
              /\ console' = console \o said \o <<<<"  U+2713 Created ", dest>>>>
              /\ index' = NextIndex(index)
              /\ UNCHANGED <<pc, dirExists, sources, error>>
    /\ UNCHANGED notBuild

\* build.js:184, after the last entry
Finish ==
    /\ pc = "pages"
    /\ index >= NumPages
    /\ console' = Append(console, SuccessMessage)
    /\ pc' = "done"
    /\ UNCHANGED <<index, dirExists, disk, fsLog, sources, error>>
    /\ UNCHANGED notBuild

----------------------------------------------------------------------------
(* Specifications *)

Init == BuildInit /\ SlugIdle /\ HeadIdle /\ FurnIdle /\ PageIdle
Next == Start \/ CopyStyles \/ CopyLogo \/ BuildPage \/ Finish
Spec == Init /\ [][Next]_vars

InitSlug == SlugInit /\ HeadIdle /\ FurnIdle /\ PageIdle /\ BuildIdle
NextSlug == Slugify \/ Reslugify
SpecSlug == InitSlug /\ [][NextSlug]_vars

InitHeadings == HeadInit /\ SlugIdle /\ FurnIdle /\ PageIdle /\ BuildIdle
NextHeadings == ParseDoc \/ ExtractHeadings
SpecHeadings == InitHeadings /\ [][NextHeadings]_vars

InitFurniture == FurnInit /\ SlugIdle /\ HeadIdle /\ PageIdle /\ BuildIdle
NextFurniture == GenerateNav \/ GenerateBreadcrumb \/ GeneratePageNav
SpecFurniture == InitFurniture /\ [][NextFurniture]_vars

InitPage == PageInit /\ SlugIdle /\ HeadIdle /\ FurnIdle /\ BuildIdle
NextPage == BuildPageText
SpecPage == InitPage /\ [][NextPage]_vars

----------------------------------------------------------------------------
(* Observations on generated text *)

IsPrefix(a, b) == Len(a) <= Len(b) /\ SubSeq(b, 1, Len(a)) = a

Count(s, a) == Cardinality({j \in 1..Len(s) : s[j] = a})

\* the id attributes of the rendered headings, in document order
AnchorIds(toks) ==
    LET opens == SelectSeq(toks, LAMBDA t : t.type = "heading_open")
    IN  [i \in 1..Len(opens) |-> opens[i].id]

\* the headings of a document that belong in the table of contents
TocHeadingsOf(d) ==
    LET hs == SelectSeq(d, LAMBDA b : b.kind = "heading" /\ b.level \in {2, 3})
    IN  [i \in 1..Len(hs) |-> <<hs[i].level, hs[i].text>>]

OnlyLevels2And3(d) ==
    \A i \in 1..Len(d) : d[i].kind = "heading" => d[i].level \in {2, 3}

\* destinations the pager links to, by the class of the link
PagerHrefs(h, class) ==
    {h[j + 1] : j \in {k \in 1..(Len(h) - 2) :
                          /\ h[k] = "  <a href=\""
                          /\ h[k + 2] = class}}

PrevClass == "\" class=\"prev\">U+2190 "
NextClass == "\" class=\"next\">"

PagerSlots(h) == Count(h, "  <a href=\"") + Count(h, EmptySlot[1])

HomePrefix == "<div class=\"breadcrumb\"><a href=\"index.html\">Home</a> / <span>"

\* the breadcrumb is Home / <title>
HomeSlashTitle(b, title) == b = <<HomePrefix, title, "</span></div>">>

CurrentPage == At(pages, currentIndex)

----------------------------------------------------------------------------
(* C1, under SpecHeadings *)

\* C1 (as claimed): in a document with only level-2/3 headings, the id that
\* extractHeadings computes for each heading equals the id attribute of the
\* same rendered heading, also when two headings have the same slug.
C1_TocIdsEqualAnchorIds ==
    (headPc = "done" /\ OnlyLevels2And3(doc))
        => [i \in 1..Len(headings) |-> headings[i].id] = AnchorIds(tokens)

----------------------------------------------------------------------------
(* C2, under SpecSlug *)

\* C2 (as claimed): slugify(slugify(s)) = slugify(s) for every text s, also
\* when the slug holds percent-encoded characters.
C2_SlugifyIdempotent == slugPc = "twice" => reslug = slug

\* C2 (amended): slugify applied to its own output returns it unchanged
\* exactly when the slug holds no percent-encoded character; a slug with a
\* percent sign is changed, its percent signs being encoded once more.
C2_IdempotentIffNoEscape ==
    slugPc = "twice" => ((reslug = slug) <=> ~Contains(slug, "%"))

C2_Witness ==
    /\ slugPc = "twice"
    /\ slug # text
    /\ ~Contains(slug, "%")
    /\ reslug = slug

----------------------------------------------------------------------------
(* C7, under SpecHeadings *)

\* C7: extractHeadings returns exactly the level-2 and level-3 headings of
\* the document, each with the text of the token after its heading_open, in
\* document order, none lost and none twice.
C7_ExtractsLevel2And3InOrder ==
    headPc = "done"
        => [i \in 1..Len(headings) |-> <<headings[i].level, headings[i].content>>]
           = TocHeadingsOf(doc)

\* headings at levels 1, 2, 3, 4 give the two at levels 2, 3
C7_Witness ==
    /\ headPc = "done"
    /\ Len(doc) = 4
    /\ \A i \in 1..4 : doc[i].kind = "heading" /\ doc[i].level = i
    /\ Len(headings) = 2
    /\ headings[1].level = 2
    /\ headings[2].level = 3

----------------------------------------------------------------------------
(* C8 and C9, under SpecFurniture *)

\* C8: in a manifest of more than one entry the pager of the first entry has
\* no previous link and a next link to entry 1, the pager of the last entry
\* has no next link and a previous link to the entry before it, a pager in
\* between has both links, to the adjacent entries; an absent link is an
\* empty placeholder, so that the pager always has two slots.
C8_PagerLinksAdjacentEntries ==
    (furnPc = "done" /\ Len(pages) > 1)
        => LET prev == PagerHrefs(pageNav, PrevClass)
               next == PagerHrefs(pageNav, NextClass)
               last == Len(pages) - 1
           IN  /\ prev = IF currentIndex = 0 THEN {}
                         ELSE {At(pages, currentIndex - 1).dest}
               /\ next = IF currentIndex = last THEN {}
                         ELSE {At(pages, currentIndex + 1).dest}
               /\ PagerSlots(pageNav) = 2
               /\ Count(pageNav, EmptySlot[1])
                  = (IF currentIndex = 0 THEN 1 ELSE 0)
                    + (IF currentIndex = last THEN 1 ELSE 0)
               /\ Count(pageNav, "  <a href=\"") = Cardinality(prev) + Cardinality(next)

C8_Witness ==
    /\ furnPc = "done"
    /\ Len(pages) = 3
    /\ currentIndex = 1
    /\ PagerHrefs(pageNav, PrevClass) = {pages[1].dest}
    /\ PagerHrefs(pageNav, NextClass) = {pages[3].dest}

\* C9 (as claimed): the first manifest entry renders without "Home /", every
\* other entry renders Home / <title>, whatever the titles are.
C9_BreadcrumbByPosition ==
    furnPc = "done"
        => IF currentIndex = 0
           THEN ~Contains(breadcrumb, HomePrefix)
           ELSE HomeSlashTitle(breadcrumb, CurrentPage.title)

\* C9 (amended): the breadcrumb is decided by the title: the entry titled
\* "Getting Started" renders without "Home /", every other entry renders
\* Home / <title>; in the shipped manifest the entry with that title is the
\* first one and the only one.
C9_BreadcrumbByTitle ==
    /\ furnPc = "done"
        => IF CurrentPage.title = "Getting Started"
           THEN ~Contains(breadcrumb, HomePrefix)
           ELSE HomeSlashTitle(breadcrumb, CurrentPage.title)
    /\ \A i \in 0..(Len(ShippedPages) - 1) :
          (At(ShippedPages, i).title = "Getting Started") <=> (i = 0)

\* a first entry with another title gets Home / <title>
C9_Witness ==
    /\ furnPc = "done"
    /\ currentIndex = 0
    /\ CurrentPage.title # "Getting Started"
    /\ HomeSlashTitle(breadcrumb, CurrentPage.title)

----------------------------------------------------------------------------
(* C3, C4 and C10, under SpecPage *)

PageFragments == Fragments(ShippedPages, pageIndex, source)

\* C3 (as claimed): with a template that has each placeholder once, the page
\* holds the body exactly as the renderer produced it, whatever characters
\* it has, with the nav list and the pager of the page.
C3_BodyVerbatim ==
    (pagePc = "built" /\ template \in CompleteTemplates)
        => /\ HasInfix(html, PageFragments["{{CONTENT}}"])
           /\ HasInfix(html, PageFragments["{{NAV}}"])
           /\ HasInfix(html, PageFragments["{{PAGE_NAV}}"])

\* C4 (as claimed): with a template that has each placeholder once, the six
\* replacements give the same page in every order.
C4_OrderIndependent ==
    (pagePc = "built" /\ template \in CompleteTemplates)
        => \A o \in Permutations6 : ComposeInOrder(template, o, PageFragments) = html

\* C10 (as claimed): with a template that lacks one placeholder, its fragment
\* is nowhere in the page and the page is the one of the complete template
\* with nothing put in that placeholder's place.
C10_MissingPlaceholderDropped ==
    pagePc = "built"
        => \A ph \in Placeholders, t \in CompleteTemplates :
              (template = RemoveAtom(t, ph))
                  => /\ PageFragments[ph] # <<>>
                        => ~HasInfix(html, PageFragments[ph])
                     /\ html = ComposeInOrder(t, CodeOrder,
                                   [PageFragments EXCEPT ![ph] = <<>>])

----------------------------------------------------------------------------
(* C5 and C6, under Spec *)

FullFsLog ==
    <<"styles.css", "logo.svg">> \o [i \in 1..NumPages |-> ShippedPages[i].dest]

PageOf(i) ==
    PageFile(BuildPageHtml(BuildTemplate, ShippedPages, i, sources[i]))

Attempts(i) == Count(console, <<"Building ", Dest(i), "...">>)

\* C5: the directory exists before anything is written, the stylesheet and
\* then the logo are copied before any page, the pages are written once each
\* in manifest order, and a run without a failure goes on until it has
\* written them all and printed the success message.
C5_SequentialInManifestOrder ==
    /\ fsLog # <<>> => dirExists
    /\ IsPrefix(fsLog, FullFsLog)
    /\ \A i \in 0..(NumPages - 1) : Attempts(i) <= 1
    /\ pc = "pages" => Len(fsLog) = 2 + index
    /\ Contains(console, SuccessMessage) => pc = "done"
    /\ pc = "done"
        => /\ error = "none"
           /\ fsLog = FullFsLog
           /\ console[Len(console)] = SuccessMessage
           /\ \A i \in 0..(NumPages - 1) : disk[Dest(i)] = PageOf(i)
           /\ \A a \in {"styles.css", "logo.svg"} : disk[a] = Asset(a)
    /\ (error = "none" /\ pc # "done") => ENABLED Next

C5_Witness ==
    /\ pc = "done"
    /\ Len(fsLog) = NumPages + 2
    /\ \A i \in 0..(NumPages - 1) : Attempts(i) = 1

PageFailures == {"readSource", "readTemplate", "write"}

C6_AbortedState ==
    /\ error # "none" => pc = "aborted"
    /\ (pc = "aborted" /\ error \in PageFailures)
        => /\ ~Contains(console, SuccessMessage)
           /\ fsLog = SubSeq(FullFsLog, 1, 2 + index)
           /\ \A i \in 0..(NumPages - 1) :
                 /\ i < index => disk[Dest(i)] = PageOf(i)
                 /\ i = index => /\ disk[Dest(i)].kind # "page"
                                 /\ Attempts(i) = 1
                 /\ i > index => /\ disk[Dest(i)].kind \in {"absent", "stale"}
                                 /\ Attempts(i) = 0

\* C6: a failure to read the source or the template or to write the page of
\* entry k ends the run there without the success message: the pages of the
\* entries before k are on disk as written, no page of entry k or of a later
\* entry is written, and nothing is done after the failure, so that no step
\* is tried again.
C6_FailFast ==
    /\ []C6_AbortedState
    /\ [][pc # "aborted" /\ error = "none"]_vars

C6_Witness ==
    /\ pc = "aborted"
    /\ error = "write"
    /\ index = 2
    /\ disk[Dest(1)] = PageOf(1)
    /\ disk[Dest(2)] = Partial

====
